---- MODULE Spec2Model ----
(***************************************************************************)
(* Contact API of developer-portfolio-backend: the express-rate-limit      *)
(* middleware in front of POST /api/contact, the submission handler of     *)
(* server.js (Resend) and the earlier SMTP variant of the same handler.    *)
(*                                                                         *)
(* Text is a sequence of one-character strings, so that validator.escape,  *)
(* validator.isEmail and String.length are computed and not assumed.       *)
(* A JSON field is a tagged value: [t |-> "undefined"] when the key is     *)
(* absent from req.body, [t |-> "string", s |-> <<...>>] when it is text.  *)
(***************************************************************************)
EXTENDS Integers, Sequences, FiniteSets, Bags, TLC

(***************************************************************************)
(* Bounds of the exploration                                               *)
(***************************************************************************)
\* requests received in one behaviour of Spec
MaxReqs == 3
\* requests received in one behaviour of SpecLimiter
BurstReqs == 7
\* requests awaiting the email provider or the store at the same time
MaxInFlight == 2
\* clock advances (each of half a rate-limit window)
MaxTicks == 2
\* rows the table holds when the service starts, at most
MaxRows == 5

(***************************************************************************)
(* Program constants                                                       *)
(***************************************************************************)
\* contactLimiter: windowMs: 15 * 60 * 1000
windowMs == 15 * 60 * 1000
\* contactLimiter: max: 5
max == 5
\* validator.isLength(email, { max: 254 })
EmailMaxLen == 254
\* message.length > 1000
MessageMaxLen == 1000

\* req.ip of the callers
Addrs == {"10.0.0.1", "10.0.0.2"}

(***************************************************************************)
(* JSON values and JavaScript truthiness                                   *)
(***************************************************************************)
Undefined == [t |-> "undefined"]

Str(s) == [t |-> "string", s |-> s]

IsString(v) == v.t = "string"

\* !v is false exactly for a non-empty string (undefined and "" are falsy)
Truthy(v) == IsString(v) /\ Len(v.s) > 0

Rep(c, n) == [i \in 1..n |-> c]

(***************************************************************************)
(* validator.escape                                                        *)
(***************************************************************************)
\* the grave accent (the lexer has no literal for it)
Backtick == "grave"

EscapeChar(c) ==
  CASE c = "&" -> <<"&", "a", "m", "p", ";">>
    [] c = "\"" -> <<"&", "q", "u", "o", "t", ";">>
    [] c = "'" -> <<"&", "#", "x", "2", "7", ";">>
    [] c = "<" -> <<"&", "l", "t", ";">>
    [] c = ">" -> <<"&", "g", "t", ";">>
    [] c = "/" -> <<"&", "#", "x", "2", "F", ";">>
    [] c = "\\" -> <<"&", "#", "x", "5", "C", ";">>
    [] c = Backtick -> <<"&", "#", "9", "6", ";">>
    [] OTHER -> <<c>>

\* the entities of s[lo..hi], concatenated (halving keeps the recursion shallow)
RECURSIVE EscapeRange(_, _, _)
EscapeRange(s, lo, hi) ==
  IF lo > hi THEN <<>>
  ELSE IF lo = hi THEN EscapeChar(s[lo])
  ELSE LET mid == (lo + hi) \div 2
       IN EscapeRange(s, lo, mid) \o EscapeRange(s, mid + 1, hi)

\* the text with every markup character replaced by its entity
Escape(s) == EscapeRange(s, 1, Len(s))

(***************************************************************************)
(* validator.isEmail (default options) and validator.isLength              *)
(***************************************************************************)
Letters ==
  {"a", "b", "c", "d", "e", "h", "j", "l", "m", "n", "o", "p", "x",
   "A", "D", "H", "J", "N", "O"}

Digits == {"0", "1", "2", "5", "6", "7", "9"}

\* characters of an unquoted local part besides letters and digits
UserSpecials ==
  {"!", "#", "$", "%", "&", "'", "*", "+", "-", "/", "=", "?", "^", "_",
   Backtick, "{", "|", "}", "~"}

Positions(s, c) == {i \in 1..Len(s) : s[i] = c}

MaxOf(S) == CHOOSE m \in S : \A n \in S : n <= m

\* dot-separated parts are all non-empty
NoEmptyPart(s) ==
  /\ Len(s) > 0
  /\ s[1] # "."
  /\ s[Len(s)] # "."
  /\ \A i \in 1..(Len(s) - 1) : ~(s[i] = "." /\ s[i + 1] = ".")

\* start of the dot-separated part that position i lies in
PartStart(s, i) == MaxOf({0} \cup {j \in 1..i : s[j] = "."}) + 1

IsUserPart(u) ==
  /\ Len(u) <= 64
  /\ NoEmptyPart(u)
  /\ \A i \in 1..Len(u) : u[i] \in Letters \cup Digits \cup UserSpecials \cup {"."}

IsFQDN(d) ==
  /\ Len(d) <= 254
  /\ NoEmptyPart(d)
  /\ Positions(d, ".") # {}
  /\ \A i \in 1..Len(d) : d[i] \in Letters \cup Digits \cup {"-", "."}
  /\ \A i \in 1..Len(d) :
       /\ i - PartStart(d, i) + 1 <= 63
       /\ d[i] = "-" => /\ i > 1 /\ d[i - 1] # "."
                        /\ i < Len(d) /\ d[i + 1] # "."
  /\ LET tld == MaxOf(Positions(d, ".")) + 1
     IN /\ Len(d) - tld + 1 >= 2
        /\ \A i \in tld..Len(d) : d[i] \in Letters

IsEmail(s) ==
  LET ats == Positions(s, "@")
  IN /\ ats # {}
     /\ LET at == MaxOf(ats)
        IN /\ IsUserPart(SubSeq(s, 1, at - 1))
           /\ IsFQDN(SubSeq(s, at + 1, Len(s)))

IsLength(s, maxLen) == Len(s) <= maxLen

(***************************************************************************)
(* Request bodies                                                          *)
(***************************************************************************)
John == <<"J", "o", "h", "n">>

Bold == <<"<", "b", ">">>

ONeil == <<"O", "'", "N", "e", "i", "l">>

JohnAtExample ==
  <<"j", "o", "h", "n", "@", "e", "x", "a", "m", "p", "l", "e", ".", "c", "o", "m">>

\* no "@": fails validator.isEmail
NotAnAddress == <<"j", "o", "h", "n", ".", "c", "o", "m">>

\* a syntactically valid address of 259 characters (64 + 1 + 63.63.63.co)
LongAddress ==
  Rep("a", 64) \o <<"@">> \o Rep("b", 63) \o <<".">> \o Rep("b", 63)
    \o <<".">> \o Rep("b", 63) \o <<".", "c", "o">>

Hi == <<"H", "o", "l", "a">>

Quoted == <<"\"", "a", "&", "b", "\"">>

Hello == <<"H", "e", "l", "l", "o">>

Script == <<"<", "s", "c", "r", "i", "p", "t", ">">>

Bot == <<"b", "o", "t">>

\* every combination of these field values is a request body of SpecPipeline
Payloads ==
  [firstName : {Undefined, Str(<<>>), Str(John), Str(Bold)},
   lastName : {Undefined, Str(ONeil)},
   email : {Undefined, Str(JohnAtExample), Str(NotAnAddress), Str(LongAddress)},
   subject : {Undefined, Str(<<>>), Str(Hi), Str(Quoted)},
   message : {Undefined, Str(<<>>), Str(Hello), Str(Script),
              Str(Rep("a", MessageMaxLen)), Str(Rep("a", MessageMaxLen + 1))},
   company : {Undefined, Str(<<>>), Str(Bot)}]

\* the end-to-end payload of the README
ValidBody ==
  [firstName |-> Str(John), lastName |-> Str(ONeil), email |-> Str(JohnAtExample),
   subject |-> Str(Hi), message |-> Str(Script), company |-> Str(<<>>)]

\* the test payload of the README: no subject key
NoSubjectBody == [ValidBody EXCEPT !.subject = Undefined]

\* a bot fills the hidden field and nothing else but a name
BotBody ==
  [ValidBody EXCEPT !.company = Str(Bot), !.lastName = Undefined,
                    !.email = Str(NotAnAddress), !.message = Undefined]

\* the request bodies of Spec
SystemPayloads == {ValidBody, NoSubjectBody, BotBody}

\* the request bodies of SpecLimiter
BurstPayloads == {ValidBody, NoSubjectBody, BotBody}

(***************************************************************************)
(* State                                                                   *)
(***************************************************************************)
VARIABLES
  \* Date.now(), milliseconds since the process started
  now,
  \* MemoryStore of contactLimiter: totalHits and resetTime of each key (req.ip)
  hits,
  resetTime,
  \* the requests suspended at an await (a bag: requests have no identity)
  inflight,
  \* the request whose handling ended last (answered, or abandoned by express)
  finished,
  \* number of requests received so far (the next request id)
  arrived,
  \* the rows of table messages, in insertion order
  messages,
  \* number of 200 {success: true} responses to requests with an empty honeypot
  accepted,
  \* per key, the requests passed on to the route handler in the key's current window
  admitted,
  \* the connection pool: "open", "ending" (pool.end() called) or "ended"
  pool,
  \* the node process: "running" or "exited"
  process

vars == <<now, hits, resetTime, inflight, finished, arrived, messages, accepted, admitted,
          pool, process>>

\* what the request handlers leave alone
lifecycle == <<pool, process>>

Null == [t |-> "null"]

NoMail == [sent |-> FALSE]

NoLocals == [set |-> FALSE]

NoRequest == [pc |-> "none"]

Init ==
  /\ now = 0
  /\ hits = [a \in Addrs |-> 0]
  /\ resetTime = [a \in Addrs |-> 0]
  /\ inflight = EmptyBag
  /\ finished = NoRequest
  /\ arrived = 0
  /\ messages = <<>>
  /\ accepted = 0
  /\ admitted = [a \in Addrs |-> 0]
  /\ pool = "open"
  /\ process = "running"

(***************************************************************************)
(* logEvent and res.status(..).json(..)                                    *)
(***************************************************************************)
\* the object {timestamp, type, ...data}: the keys of data are spread last,
\* so a key of data named type replaces the event kind (the timestamp is
\* left out of the model)
LogRecord(type, data) == data @@ [type |-> type]

\* logEvent(type, data): one line on stdout, kept with the request that wrote it
logEvent(r, type, data) == [r EXCEPT !.logged = Append(@, LogRecord(type, data))]

\* res.status(status).json(reply) ends the request
Respond(r, status, reply) ==
  [r EXCEPT !.status = status, !.reply = reply, !.sent = @ + 1, !.pc = "done"]

Success == "{success: true}"

TooMany == "Too many requests. Please try again later."

MissingFields == "Missing required fields."

InvalidEmail == "Please provide a valid email address"

EmailTooLong == "Email address is too long"

MessageTooLong == "Message must be less than 1000 characters"

SendFailed == "Failed to send message. Please try again later."

\* body of the error page of Express's default error handler
DefaultErrorPage == "Internal Server Error"

(***************************************************************************)
(* contactLimiter: rateLimit({windowMs, max, handler})                     *)
(***************************************************************************)
\* MemoryStore.increment(key): a key whose window is over starts a new one
Increment(ip) ==
  IF resetTime[ip] <= now
    THEN [totalHits |-> 1, resetTime |-> now + windowMs]
    ELSE [totalHits |-> hits[ip] + 1, resetTime |-> resetTime[ip]]

\* the limit compared one request too late
LimitExceededOffByOne(totalHits) == totalHits > max + 1

\* the middleware's test: totalHits > max
LimitExceeded(totalHits) == totalHits > max

\* a request as express hands it to the middleware chain
NewRequest(ip, body) ==
  [ip |-> ip, body |-> body, pc |-> "next",
   status |-> 0, reply |-> "", sent |-> 0, logged |-> <<>>,
   mail |-> NoMail, settled |-> "", locals |-> NoLocals, inserted |-> 0]

\* the middleware: its handler option answers 429, otherwise next()
contactLimiter(r, totalHits) ==
  IF LimitExceeded(totalHits)
    THEN Respond(logEvent(r, "RATE_LIMITED", [ip |-> r.ip]), 429, TooMany)
    ELSE r

\* time passes: half a window
Tick ==
  /\ now < MaxTicks * (windowMs \div 2)
  /\ now' = now + windowMs \div 2
  /\ UNCHANGED <<hits, resetTime, inflight, finished, arrived, messages, accepted, admitted, pool, process>>

(***************************************************************************)
(* app.post("/api/contact", contactLimiter, async (req, res) => ...)       *)
(***************************************************************************)
\* if (company)
HoneypotTriggered(b) == Truthy(b.company)

\* if (!firstName || !lastName || !email || !message)
MissingRequired(b) ==
  ~Truthy(b.firstName) \/ ~Truthy(b.lastName) \/ ~Truthy(b.email) \/ ~Truthy(b.message)

\* message.length > 1000
MessageLengthExceeded(message) == Len(message) > MessageMaxLen

\* validator's assertString: a TypeError for anything but a string
AssertStringThrows(v) == ~IsString(v)

\* the four validator.escape calls, in order; any of them may throw
SanitizeThrows(b) ==
  \/ AssertStringThrows(b.message)
  \/ AssertStringThrows(b.firstName)
  \/ AssertStringThrows(b.lastName)
  \/ AssertStringThrows(b.subject)

\* const sanitizedMessage = ..., sanitizedFirstName, sanitizedLastName, sanitizedSubject
Sanitize(b) ==
  [set |-> TRUE,
   sanitizedMessage |-> Escape(b.message.s),
   sanitizedFirstName |-> Escape(b.firstName.s),
   sanitizedLastName |-> Escape(b.lastName.s),
   sanitizedSubject |-> Escape(b.subject.s)]

NewPortfolioContact ==
  <<"N", "e", "w", " ", "P", "o", "r", "t", "f", "o", "l", "i", "o", " ",
    "C", "o", "n", "t", "a", "c", "t">>

None == <<"N", "o", "n", "e">>

\* x || y on strings: the empty string is falsy
OrElse(x, y) == IF Len(x) > 0 THEN x ELSE y

\* the argument of resend.emails.send; text and html list the interpolated values
ResendEmail(email, l) ==
  [sent |-> TRUE,
   reply_to |-> email,
   subject |-> OrElse(l.sanitizedSubject, NewPortfolioContact),
   text |-> <<l.sanitizedFirstName, l.sanitizedLastName, email,
              l.sanitizedSubject, l.sanitizedMessage>>,
   html |-> <<l.sanitizedFirstName, l.sanitizedLastName, email,
              OrElse(l.sanitizedSubject, None), l.sanitizedMessage>>]

\* the row of INSERT INTO messages; id is the store's (SERIAL), and so is
\* created_at, which orders the rows as the sequence messages does
MessageRow(r, id) ==
  [id |-> id,
   first_name |-> Str(r.locals.sanitizedFirstName),
   last_name |-> Str(r.locals.sanitizedLastName),
   email |-> r.body.email,
   subject |-> IF Len(r.locals.sanitizedSubject) > 0
                 THEN Str(r.locals.sanitizedSubject) ELSE Null,
   message |-> Str(r.locals.sanitizedMessage),
   ip_address |-> r.ip]

\* an exception that leaves the async handler: its promise rejects
Throw(r) == [r EXCEPT !.pc = "threw"]

\* major versions of express the service may be installed with (package.json
\* is not among the sources)
ExpressVersions == {4, 5}

\* the rejected promise of the handler: Express 4 ignores it and the request
\* is never answered (or the process dies of the unhandled rejection);
\* Express 5 passes it to the default error handler
HandlerRejects(r, version) ==
  IF r.pc # "threw" THEN r
  ELSE IF version = 5 THEN Respond(r, 500, DefaultErrorPage)
  ELSE [r EXCEPT !.pc = "unanswered"]

\* the handler with the address validated before the required-field test
ContactHandlerEmailFirst(r) ==
  LET b == r.body
  IN IF HoneypotTriggered(b)
       THEN Respond(logEvent(r, "SPAM_BLOCKED", [ip |-> r.ip]), 200, Success)
     ELSE IF ~Truthy(b.email) \/ ~IsEmail(b.email.s)
       THEN Respond(r, 400, InvalidEmail)
     ELSE IF ~IsLength(b.email.s, EmailMaxLen)
       THEN Respond(r, 400, EmailTooLong)
     ELSE IF MissingRequired(b)
       THEN Respond(r, 400, MissingFields)
     ELSE IF IsString(b.message) /\ MessageLengthExceeded(b.message.s)
       THEN Respond(r, 400, MessageTooLong)
     ELSE IF SanitizeThrows(b)
       THEN Throw(r)
     ELSE [r EXCEPT !.locals = Sanitize(b),
                    !.mail = ResendEmail(b.email.s, Sanitize(b)),
                    !.pc = "send"]

\* the handler with the honeypot test after the required-field test
ContactHandlerHoneypotSecond(r) ==
  LET b == r.body
  IN IF MissingRequired(b)
       THEN Respond(r, 400, MissingFields)
     ELSE IF HoneypotTriggered(b)
       THEN Respond(logEvent(r, "SPAM_BLOCKED", [ip |-> r.ip]), 200, Success)
     ELSE IF AssertStringThrows(b.email)
       THEN Throw(r)
     ELSE IF ~IsEmail(b.email.s)
       THEN Respond(r, 400, InvalidEmail)
     ELSE IF ~IsLength(b.email.s, EmailMaxLen)
       THEN Respond(r, 400, EmailTooLong)
     ELSE IF IsString(b.message) /\ MessageLengthExceeded(b.message.s)
       THEN Respond(r, 400, MessageTooLong)
     ELSE IF SanitizeThrows(b)
       THEN Throw(r)
     ELSE [r EXCEPT !.locals = Sanitize(b),
                    !.mail = ResendEmail(b.email.s, Sanitize(b)),
                    !.pc = "send"]

\* the handler from its first line to its first await
ContactHandler(r) ==
  LET b == r.body
  IN IF HoneypotTriggered(b)
       THEN Respond(logEvent(r, "SPAM_BLOCKED", [ip |-> r.ip]), 200, Success)
     ELSE IF MissingRequired(b)
       THEN Respond(r, 400, MissingFields)
     ELSE IF AssertStringThrows(b.email)
       THEN Throw(r)
     ELSE IF ~IsEmail(b.email.s)
       THEN Respond(r, 400, InvalidEmail)
     ELSE IF ~IsLength(b.email.s, EmailMaxLen)
       THEN Respond(r, 400, EmailTooLong)
     ELSE IF IsString(b.message) /\ MessageLengthExceeded(b.message.s)
       THEN Respond(r, 400, MessageTooLong)
     ELSE IF SanitizeThrows(b)
       THEN Throw(r)
     ELSE [r EXCEPT !.locals = Sanitize(b),
                    !.mail = ResendEmail(b.email.s, Sanitize(b)),
                    !.pc = "send"]

\* what a request whose handling ended adds to the count of accepted submissions
Tally(r) ==
  IF r.pc = "done" /\ r.status = 200 /\ r.reply = Success /\ ~Truthy(r.body.company)
    THEN 1 ELSE 0

\* the middleware chain of the route in one turn of the event loop: the
\* limiter and, unless it answers 429, the handler up to its first await
Route(ip, body, totalHits, version) ==
  LET limited == contactLimiter(NewRequest(ip, body), totalHits)
  IN IF limited.pc = "done" THEN limited
     ELSE HandlerRejects(ContactHandler(limited), version)

\* POST /api/contact arrives from ip
Receive(ip, body, bound) ==
  /\ arrived < bound
  /\ BagCardinality(inflight) < MaxInFlight
  /\ \E info \in {Increment(ip)}, version \in ExpressVersions :
       \E r \in {Route(ip, body, info.totalHits, version)} :
         LET fresh == info.resetTime # resetTime[ip]
             passed == IF r.status = 429 THEN 0 ELSE 1
         IN /\ hits' = [hits EXCEPT ![ip] = info.totalHits]
            /\ resetTime' = [resetTime EXCEPT ![ip] = info.resetTime]
            /\ admitted' = [admitted EXCEPT ![ip] = IF fresh THEN passed ELSE @ + passed]
            /\ IF r.pc = "send"
                 THEN inflight' = inflight (+) SetToBag({r}) /\ finished' = finished
                 ELSE inflight' = inflight /\ finished' = r
            /\ accepted' = accepted + Tally(r)
  /\ arrived' = arrived + 1
  /\ UNCHANGED <<now, messages, pool, process>>

\* error.message of a failed provider call or query
ProviderMessage == "provider failure"

StoreMessage == "store failure"

\* a catch block that answers with the error's own message
CatchErrorLeaks(r, message) ==
  Respond(logEvent(r, "ERROR", [ip |-> r.ip, error |-> message]), 500, message)

\* a catch block that logs the error and reports success
CatchErrorSwallows(r, message) ==
  Respond(logEvent(r, "ERROR", [ip |-> r.ip, error |-> message]), 200, Success)

\* catch (error): one ERROR event and the generic 500
CatchError(r, message) ==
  Respond(logEvent(r, "ERROR", [ip |-> r.ip, error |-> message]), 500, SendFailed)

\* the error payload of the provider ignored: on to the INSERT
OnResendErrorIgnored(r) == [r EXCEPT !.pc = "insert"]

\* if (error) { logEvent("RESEND_ERROR", ...); throw error; }
OnResendError(r) ==
  CatchError(
    logEvent(r, "RESEND_ERROR",
             [ip |-> r.ip, email |-> r.body.email, error |-> ProviderMessage]),
    ProviderMessage)

\* the suspended request r goes on as q: suspended again, or ended
Resume(r, q) ==
  /\ IF q.pc \in {"done", "unanswered"}
       THEN /\ inflight' = inflight (-) SetToBag({r})
            /\ finished' = q
       ELSE /\ inflight' = (inflight (-) SetToBag({r})) (+) SetToBag({q})
            /\ finished' = finished
  /\ accepted' = accepted + Tally(q)

\* await resend.emails.send settles: {data}, {error}, or a rejection
ResendSettles(r, outcome) ==
  /\ r.pc = "send"
  /\ LET s == [r EXCEPT !.settled = outcome]
     IN Resume(r, CASE outcome = "data" -> [s EXCEPT !.pc = "insert"]
                    [] outcome = "error" -> OnResendError(s)
                    [] outcome = "rejected" -> CatchError(s, ProviderMessage))
  /\ UNCHANGED <<now, hits, resetTime, arrived, messages, admitted, pool, process>>

\* the store runs the INSERT: the row is committed, or the query fails
PoolQueryInsert(r, ok) ==
  /\ r.pc = "insert"
  /\ IF ok
       THEN /\ messages' = Append(messages, MessageRow(r, Len(messages) + 1))
            /\ Resume(r, [r EXCEPT !.pc = "inserted", !.inserted = @ + 1])
       ELSE /\ messages' = messages
            /\ Resume(r, CatchError(r, StoreMessage))
  /\ UNCHANGED <<now, hits, resetTime, arrived, admitted, pool, process>>

\* after the INSERT: logEvent("SUCCESS"), res.status(200).json({success: true})
OnInserted(r) ==
  Respond(
    logEvent(r, "SUCCESS", [ip |-> r.ip, email |-> r.body.email, subject |-> r.body.subject]),
    200, Success)

\* await pool.query resolves and the handler runs to its end
InsertResolves(r) ==
  /\ r.pc = "inserted"
  /\ Resume(r, OnInserted(r))
  /\ UNCHANGED <<now, hits, resetTime, arrived, messages, admitted, pool, process>>

(***************************************************************************)
(* The SMTP variant of the service (nodemailer): app.post("/api/contact",  *)
(* async (req, res) => ...) without the limiter in its middleware chain    *)
(***************************************************************************)
SmtpFailed == "Failed to send email"

\* the argument of transporter.sendMail; from and text list the interpolated values
SmtpEmail(b, l) ==
  [sent |-> TRUE,
   from |-> <<l.sanitizedFirstName, l.sanitizedLastName, b.email.s>>,
   subject |-> OrElse(b.subject.s, NewPortfolioContact),
   text |-> <<l.sanitizedFirstName, l.sanitizedLastName, b.email.s,
              l.sanitizedSubject, l.sanitizedMessage>>]

\* the row of this variant's INSERT INTO messages: the request's own values
SmtpMessageRow(r, id) ==
  [id |-> id,
   first_name |-> r.body.firstName,
   last_name |-> r.body.lastName,
   email |-> r.body.email,
   subject |-> IF Truthy(r.body.subject) THEN r.body.subject ELSE Null,
   message |-> r.body.message,
   ip_address |-> r.ip]

\* the variant's handler from its first line to its first await
SmtpHandler(r) ==
  LET b == r.body
  IN IF HoneypotTriggered(b)
       THEN Respond(logEvent(r, "SPAM_BLOCKED", [ip |-> r.ip]), 200, Success)
     ELSE IF MissingRequired(b)
       THEN Respond(r, 400, MissingFields)
     ELSE IF AssertStringThrows(b.email)
       THEN Throw(r)
     ELSE IF ~IsEmail(b.email.s)
       THEN Respond(r, 400, InvalidEmail)
     ELSE IF ~IsLength(b.email.s, EmailMaxLen)
       THEN Respond(r, 400, EmailTooLong)
     ELSE IF IsString(b.message) /\ MessageLengthExceeded(b.message.s)
       THEN Respond(r, 400, MessageTooLong)
     ELSE IF SanitizeThrows(b)
       THEN Throw(r)
     ELSE [r EXCEPT !.locals = Sanitize(b),
                    !.mail = SmtpEmail(b, Sanitize(b)),
                    !.pc = "send"]

\* the variant's catch (error): an ERROR event with the error code, and its 500
SmtpCatchError(r, message) ==
  Respond(logEvent(r, "ERROR", [ip |-> r.ip, error |-> message, details |-> "ECONNREFUSED"]),
          500, SmtpFailed)

\* POST /api/contact arrives at the variant: the handler runs to its first await
SmtpReceive(ip, body) ==
  /\ arrived < 1
  /\ \E version \in ExpressVersions :
       \E r \in {HandlerRejects(SmtpHandler(NewRequest(ip, body)), version)} :
         /\ IF r.pc = "send"
              THEN inflight' = inflight (+) SetToBag({r}) /\ finished' = finished
              ELSE inflight' = inflight /\ finished' = r
         /\ accepted' = accepted + Tally(r)
  /\ arrived' = arrived + 1
  /\ UNCHANGED <<now, hits, resetTime, messages, admitted, pool, process>>

\* await transporter.sendMail settles
SendMailSettles(r, ok) ==
  /\ r.pc = "send"
  /\ LET s == [r EXCEPT !.settled = IF ok THEN "data" ELSE "rejected"]
     IN Resume(r, IF ok THEN [s EXCEPT !.pc = "insert"]
                        ELSE SmtpCatchError(s, ProviderMessage))
  /\ UNCHANGED <<now, hits, resetTime, arrived, messages, admitted, pool, process>>

\* the store runs the variant's INSERT
SmtpPoolQueryInsert(r, ok) ==
  /\ r.pc = "insert"
  /\ IF ok
       THEN /\ messages' = Append(messages, SmtpMessageRow(r, Len(messages) + 1))
            /\ Resume(r, [r EXCEPT !.pc = "inserted", !.inserted = @ + 1])
       ELSE /\ messages' = messages
            /\ Resume(r, SmtpCatchError(r, StoreMessage))
  /\ UNCHANGED <<now, hits, resetTime, arrived, admitted, pool, process>>

Steps ==
  \/ \E r \in BagToSet(inflight), outcome \in {"data", "error", "rejected"} :
       ResendSettles(r, outcome)
  \/ \E r \in BagToSet(inflight), ok \in BOOLEAN : PoolQueryInsert(r, ok)
  \/ \E r \in BagToSet(inflight) : InsertResolves(r)

\* the service under a few concurrent requests
Next ==
  \/ \E ip \in Addrs, body \in SystemPayloads : Receive(ip, body, MaxReqs)
  \/ Tick
  \/ Steps

Spec == Init /\ [][Next]_vars

\* a burst of requests against the rate limiter
NextLimiter ==
  \/ \E ip \in Addrs, body \in BurstPayloads : Receive(ip, body, BurstReqs)
  \/ Tick
  \/ \E r \in BagToSet(inflight), outcome \in {"error", "rejected"} :
       ResendSettles(r, outcome)

SpecLimiter == Init /\ [][NextLimiter]_vars

\* one request with any body: the handler applied to every input
NextPipeline ==
  \/ \E ip \in Addrs, body \in Payloads : Receive(ip, body, 1)
  \/ Steps

SpecPipeline == Init /\ [][NextPipeline]_vars

\* one request with any body against the SMTP variant
NextSmtp ==
  \/ \E ip \in Addrs, body \in Payloads : SmtpReceive(ip, body)
  \/ \E r \in BagToSet(inflight), ok \in BOOLEAN : SendMailSettles(r, ok)
  \/ \E r \in BagToSet(inflight), ok \in BOOLEAN : SmtpPoolQueryInsert(r, ok)
  \/ \E r \in BagToSet(inflight) : InsertResolves(r)

SpecSmtp == Init /\ [][NextSmtp]_vars

(***************************************************************************)
(* The admin listing:                                                      *)
(* app.get("api/admin/messages", adminAuth, async (req, res) => ...)       *)
(***************************************************************************)
\* the path the route is registered under
AdminRoutePath == "api/admin/messages"

\* the request target of GET /api/admin/messages
AdminUrl == "/api/admin/messages"

\* the router's test of a request's path against a route's path: the whole
\* path, an optional trailing slash allowed
RouteMatches(path, url) == url = path \/ url = path \o "/"

Unauthorized == "Unauthorized"

Forbidden == "Forbidden"

FetchFailed == "Failed to fetch messages"

\* the 200 body {page, limit, total, totalPages, messages}; its values are
\* the fields of the same names of the request's record
Listing == "listing"

\* the answer of express when no route matches
NotFound == "Cannot GET /api/admin/messages"

Space == " "

BearerPrefix == <<"B", "e", "a", "r", "e", "r", " ">>

\* String.prototype.startsWith
StartsWith(s, prefix) ==
  Len(s) >= Len(prefix) /\ SubSeq(s, 1, Len(prefix)) = prefix

\* String.prototype.split: the parts of s between the occurrences of sep
RECURSIVE Split(_, _)
Split(s, sep) ==
  IF Positions(s, sep) = {}
    THEN <<s>>
    ELSE LET i == CHOOSE k \in Positions(s, sep) : \A j \in Positions(s, sep) : k <= j
         IN <<SubSeq(s, 1, i - 1)>> \o Split(SubSeq(s, i + 1, Len(s)), sep)

\* ADMIN_API_KEY samples
Secret == <<"k", "e", "y">>

SpacedSecret == <<"k", " ", "y">>

\* process.env.ADMIN_API_KEY: set, set with a space in it, set to "", unset
AdminKeys == {Str(Secret), Str(SpacedSecret), Str(<<>>), Undefined}

\* Authorization header samples
Basic == <<"B", "a", "s", "i", "c", " ">>

AuthHeaders ==
  {Undefined,
   Str(<<>>),
   Str(Basic \o Secret),
   Str(<<"B", "e", "a", "r", "e", "r">>),
   Str(<<"b", "e", "a", "r", "e", "r", " ">> \o Secret),
   Str(BearerPrefix),
   Str(BearerPrefix \o Secret),
   Str(BearerPrefix \o <<"b", "a", "d">>),
   Str(BearerPrefix \o Secret \o <<" ", "x">>),
   Str(BearerPrefix \o SpacedSecret)}

\* a GET request as the middleware chain receives it; key is the value of
\* process.env.ADMIN_API_KEY
NewAdminRequest(ip, url, authorization, key, query) ==
  [ip |-> ip, url |-> url, authorization |-> authorization, key |-> key, query |-> query,
   pc |-> "next", status |-> 0, reply |-> "", sent |-> 0, logged |-> <<>>,
   page |-> 0, limit |-> 0, offset |-> 0, queries |-> 0, seen |-> 0,
   rows |-> <<>>, total |-> 0, totalPages |-> 0, failed |-> FALSE]

\* const token = authHeader.split(" ")[1]
Token(authHeader) == Split(authHeader, Space)[2]

\* adminAuth: 401 without a Bearer header, 403 when the token is not the key,
\* next() otherwise
adminAuth(r) ==
  IF ~Truthy(r.authorization) \/ ~StartsWith(r.authorization.s, BearerPrefix)
    THEN Respond(r, 401, Unauthorized)
  ELSE IF Str(Token(r.authorization.s)) # r.key
    THEN Respond(r, 403, Forbidden)
  ELSE [r EXCEPT !.pc = "handler"]

\* the value of a decimal digit
DigitValue(c) ==
  CASE c = "0" -> 0 [] c = "1" -> 1 [] c = "2" -> 2 [] c = "3" -> 3 [] c = "4" -> 4
    [] c = "5" -> 5 [] c = "6" -> 6 [] c = "7" -> 7 [] c = "8" -> 8 [] c = "9" -> 9

DecimalDigits == {"0", "1", "2", "3", "4", "5", "6", "7", "8", "9"}

\* the length of the longest prefix of s made of digits
DigitsPrefix(s) ==
  MaxOf({k \in 0..Len(s) : \A i \in 1..k : s[i] \in DecimalDigits})

\* the number written by the digits s
RECURSIVE Decimal(_)
Decimal(s) ==
  IF s = <<>> THEN 0
  ELSE 10 * Decimal(SubSeq(s, 1, Len(s) - 1)) + DigitValue(s[Len(s)])

NaN == [nan |-> TRUE, n |-> 0]

\* parseInt(v, 10): an optional sign and the digits that follow it, NaN
\* when there is none; an absent parameter reads "undefined"
ParseInt(v) ==
  IF ~IsString(v) THEN NaN
  ELSE LET signed == Len(v.s) > 0 /\ v.s[1] \in {"-", "+"}
           body == IF signed THEN SubSeq(v.s, 2, Len(v.s)) ELSE v.s
           k == DigitsPrefix(body)
           n == Decimal(SubSeq(body, 1, k))
       IN IF k = 0 THEN NaN
          ELSE [nan |-> FALSE, n |-> IF signed /\ v.s[1] = "-" THEN 0 - n ELSE n]

DefaultPage == 1

DefaultLimit == 20

\* parseInt(...) || d: NaN and 0 are falsy
OrDefault(x, d) == IF x.nan \/ x.n = 0 THEN d ELSE x.n

\* req.query.page and req.query.limit samples
Two == <<"2">>

Three == <<"3">>

Zero == <<"0">>

MinusOne == <<"-", "1">>

Abc == <<"a", "b", "c">>

TwoPx == <<"2", "p", "x">>

FiveHundred == <<"5", "0", "0">>

PageParams == {Undefined, Str(Two), Str(Three), Str(Zero), Str(MinusOne), Str(Abc)}

LimitParams == {Undefined, Str(Two), Str(TwoPx), Str(Zero), Str(MinusOne), Str(Abc),
                Str(FiveHundred)}

Queries == [page : PageParams, limit : LimitParams]

\* the handler from its first line to its first await: page, limit, offset
\* and the call of the row query
ListHandler(r) ==
  LET page == OrDefault(ParseInt(r.query.page), DefaultPage)
      limit == OrDefault(ParseInt(r.query.limit), DefaultLimit)
  IN [r EXCEPT !.page = page, !.limit = limit, !.offset = (page - 1) * limit,
               !.pc = "rows", !.queries = @ + 1]

\* the middleware chain of the route run on a request
AdminChain(r) ==
  LET authed == adminAuth(r)
  IN IF authed.pc = "done" THEN authed ELSE ListHandler(authed)

\* express's router on a GET request: the chain of the route when the
\* request's path matches the route's, 404 otherwise
AdminRoute(r) ==
  IF RouteMatches(AdminRoutePath, r.url) THEN AdminChain(r) ELSE Respond(r, 404, NotFound)

\* the store refuses a negative LIMIT or OFFSET
StoreRefuses(limit, offset) == limit < 0 \/ offset < 0

\* the rows of the table, newest first (created_at is the time of insertion)
NewestFirst == [i \in 1..Len(messages) |-> messages[Len(messages) + 1 - i]]

\* the rows from the offset on, however many
SelectPageUnlimited(limit, offset) == SubSeq(NewestFirst, offset + 1, Len(messages))

\* the page taken from the oldest rows on
SelectPageOldestFirst(limit, offset) ==
  SubSeq(messages, offset + 1,
         IF offset + limit < Len(messages) THEN offset + limit ELSE Len(messages))

\* SELECT ... ORDER BY created_at DESC LIMIT limit OFFSET offset
SelectPage(limit, offset) ==
  SubSeq(NewestFirst, offset + 1,
         IF offset + limit < Len(messages) THEN offset + limit ELSE Len(messages))

\* Math.ceil(total / limit) for a positive limit
Ceil(total, limit) == (total + limit - 1) \div limit

\* the admin catch (error): an ERROR event and the 500
AdminCatchError(r, message) ==
  Respond(logEvent(r, "ERROR", [type |-> "ADMIN_FETCH_FAILED", error |-> message]),
          500, FetchFailed)

\* a GET request arrives and the router runs it up to its answer or first await
AdminGet(ip, url, authorization, key, query, bound) ==
  /\ arrived < bound
  /\ BagCardinality(inflight) < MaxInFlight
  /\ \E r \in {AdminRoute(NewAdminRequest(ip, url, authorization, key, query))} :
       IF r.pc = "done"
         THEN inflight' = inflight /\ finished' = r
         ELSE inflight' = inflight (+) SetToBag({r}) /\ finished' = finished
  /\ arrived' = arrived + 1
  /\ UNCHANGED <<now, hits, resetTime, messages, accepted, admitted, pool, process>>

\* the middleware chain run on a request, as the router runs it for a
\* request whose path matches the route's
AdminInvoke(ip, authorization, key, query, bound) ==
  /\ arrived < bound
  /\ BagCardinality(inflight) < MaxInFlight
  /\ \E r \in {AdminChain(NewAdminRequest(ip, AdminRoutePath, authorization, key, query))} :
       IF r.pc = "done"
         THEN inflight' = inflight /\ finished' = r
         ELSE inflight' = inflight (+) SetToBag({r}) /\ finished' = finished
  /\ arrived' = arrived + 1
  /\ UNCHANGED <<now, hits, resetTime, messages, accepted, admitted, pool, process>>

\* await pool.query(SELECT ... LIMIT $1 OFFSET $2) settles; on success the
\* handler calls the count query
RowsQuery(r, ok) ==
  /\ r.pc = "rows"
  /\ Resume(r, IF ok /\ ~StoreRefuses(r.limit, r.offset)
                 THEN [r EXCEPT !.rows = SelectPage(r.limit, r.offset),
                                !.seen = Len(messages),
                                !.pc = "count", !.queries = @ + 1]
                 ELSE AdminCatchError([r EXCEPT !.failed = TRUE], StoreMessage))
  /\ UNCHANGED <<now, hits, resetTime, arrived, messages, admitted, pool, process>>

\* await pool.query(SELECT COUNT(*) FROM messages) settles; on success the
\* handler answers 200
CountQuery(r, ok) ==
  /\ r.pc = "count"
  /\ Resume(r, IF ok
                 THEN Respond([r EXCEPT !.total = Len(messages),
                                        !.totalPages = Ceil(Len(messages), r.limit)],
                              200, Listing)
                 ELSE AdminCatchError([r EXCEPT !.failed = TRUE], StoreMessage))
  /\ UNCHANGED <<now, hits, resetTime, arrived, messages, admitted, pool, process>>

\* GET /api/admin/messages requests with every header, key and query
NextAdmin ==
  \E ip \in Addrs, authorization \in AuthHeaders, key \in AdminKeys, query \in Queries :
    AdminGet(ip, AdminUrl, authorization, key, query, 1)

SpecAdmin == Init /\ [][NextAdmin]_vars

\* adminAuth and the handler run on every header with every key
NextAuth ==
  \/ \E ip \in Addrs, authorization \in AuthHeaders, key \in AdminKeys :
       AdminInvoke(ip, authorization, key, [page |-> Undefined, limit |-> Undefined], 1)
  \/ \E r \in BagToSet(inflight), ok \in BOOLEAN : RowsQuery(r, ok)
  \/ \E r \in BagToSet(inflight), ok \in BOOLEAN : CountQuery(r, ok)

SpecAuth == Init /\ [][NextAuth]_vars

\* a row stored by an earlier run of the service
StoredRow(id) == MessageRow(ContactHandler(NewRequest("10.0.0.2", ValidBody)), id)

\* the service starts on a table that earlier runs have filled
InitListing ==
  /\ \E n \in 0..MaxRows : messages = [id \in 1..n |-> StoredRow(id)]
  /\ now = 0
  /\ hits = [a \in Addrs |-> 0]
  /\ resetTime = [a \in Addrs |-> 0]
  /\ inflight = EmptyBag
  /\ finished = NoRequest
  /\ arrived = 0
  /\ accepted = 0
  /\ admitted = [a \in Addrs |-> 0]
  /\ pool = "open"
  /\ process = "running"

\* the headers of the listing runs: the secret and a wrong token
ListingHeaders == {Str(BearerPrefix \o Secret), Str(BearerPrefix \o <<"b", "a", "d">>)}

\* one listing with any query, with submissions that arrive while it runs
NextListing ==
  \/ \E authorization \in ListingHeaders, query \in Queries :
       AdminInvoke("10.0.0.1", authorization, Str(Secret), query, 1)
  \/ \E r \in BagToSet(inflight), ok \in BOOLEAN : RowsQuery(r, ok)
  \/ \E r \in BagToSet(inflight), ok \in BOOLEAN : CountQuery(r, ok)
  \/ \E ip \in Addrs : Receive(ip, ValidBody, MaxReqs)
  \/ \E r \in BagToSet(inflight) : ResendSettles(r, "data")
  \/ \E r \in BagToSet(inflight) : PoolQueryInsert(r, TRUE)
  \/ \E r \in BagToSet(inflight) : InsertResolves(r)

SpecListing == InitListing /\ [][NextListing]_vars

(***************************************************************************)
(* Shutdown: process.on("SIGINT", async () => { await pool.end();          *)
(* process.exit(0); }); no other signal has a listener                     *)
(***************************************************************************)
\* the requests whose store query is in flight
Querying == {r \in BagToSet(inflight) : r.pc \in {"insert", "rows", "count"}}

\* SIGINT arrives: the listener calls pool.end() and is suspended
Sigint ==
  /\ process = "running"
  /\ pool = "open"
  /\ pool' = "ending"
  /\ UNCHANGED <<now, hits, resetTime, inflight, finished, arrived, messages, accepted,
                 admitted, process>>

\* pool.end() resolves: the pool has waited for the queries in flight and
\* closed its connections
PoolEnds ==
  /\ process = "running"
  /\ pool = "ending"
  /\ Querying = {}
  /\ pool' = "ended"
  /\ UNCHANGED <<now, hits, resetTime, inflight, finished, arrived, messages, accepted,
                 admitted, process>>

\* the listener resumes after its await: process.exit(0)
ProcessExit ==
  /\ process = "running"
  /\ pool = "ended"
  /\ process' = "exited"
  /\ UNCHANGED <<now, hits, resetTime, inflight, finished, arrived, messages, accepted,
                 admitted, pool>>

\* SIGTERM arrives: no listener is registered for it, node ends the process
Sigterm ==
  /\ process = "running"
  /\ process' = "killed"
  /\ UNCHANGED <<now, hits, resetTime, inflight, finished, arrived, messages, accepted,
                 admitted, pool>>

\* the email was sent and the handler calls pool.query on a pool on which
\* end() has been called: the pool refuses the query at once
PoolRefuses(r) ==
  /\ r.pc = "send"
  /\ pool # "open"
  /\ Resume(r, CatchError([r EXCEPT !.settled = "data"], StoreMessage))
  /\ UNCHANGED <<now, hits, resetTime, arrived, messages, admitted, pool, process>>

\* submissions served while signals arrive
NextShutdown ==
  \/ process = "running" /\ \E ip \in Addrs : Receive(ip, ValidBody, MaxReqs)
  \/ process = "running" /\ pool = "open" /\ \E r \in BagToSet(inflight) :
                                               ResendSettles(r, "data")
  \/ process = "running" /\ \E r \in BagToSet(inflight) : PoolRefuses(r)
  \/ process = "running" /\ \E r \in BagToSet(inflight), ok \in BOOLEAN :
                              PoolQueryInsert(r, ok)
  \/ process = "running" /\ \E r \in BagToSet(inflight) : InsertResolves(r)
  \/ Sigint
  \/ PoolEnds
  \/ ProcessExit
  \/ Sigterm

SpecShutdown == Init /\ [][NextShutdown]_vars

(***************************************************************************)
(* Vocabulary of the properties                                            *)
(***************************************************************************)
\* a field that is absent or the empty string
Blank(v) == v = Undefined \/ v = Str(<<>>)

\* the handling of request r has ended
Ended(r) == r.pc \in {"done", "unanswered"}

\* in a step that receives a request: that request as the step leaves it
Received ==
  IF inflight' # inflight
    THEN CHOOSE r \in BagToSet(inflight') : CopiesIn(r, inflight') > CopiesIn(r, inflight)
    ELSE finished'

\* the step receives a request
Receiving == arrived' # arrived

\* no email call and no row by request r
NoSideEffect(r) == r.mail = NoMail /\ r.inserted = 0

\* the only line request r logged
LoggedOnly(r, type, data) == r.logged = <<[type |-> type] @@ data>>

(***************************************************************************)
(* C1                                                                      *)
(***************************************************************************)
\* C1, as stated: every POST /api/contact request whose honeypot field
\* company is non-empty is answered 200 {success: true}, sends no email and
\* adds no row, whatever its other fields.
C1_HoneypotAlwaysSuccess ==
  (Ended(finished) /\ ~Blank(finished.body.company)) =>
    /\ finished.status = 200
    /\ finished.reply = Success
    /\ NoSideEffect(finished)

\* C1, amended: every POST /api/contact request that the rate limiter passes
\* on (the key's count is at most max) and whose honeypot field company is
\* non-empty is answered 200 {success: true}, sends no email and adds no row,
\* whatever its other fields.
C1_HoneypotPastLimiter ==
  [][(Receiving /\ ~Blank(Received.body.company) /\ hits'[Received.ip] <= max) =>
       /\ Received.pc = "done"
       /\ Received.status = 200
       /\ Received.reply = Success
       /\ NoSideEffect(Received)
       /\ messages' = messages]_vars

\* a bot's request with fields missing and an invalid address was answered 200
C1_Witness ==
  /\ Ended(finished)
  /\ ~Blank(finished.body.company)
  /\ Blank(finished.body.message)
  /\ ~IsEmail(finished.body.email.s)
  /\ finished.status = 200
  /\ finished.reply = Success

(***************************************************************************)
(* C2                                                                      *)
(***************************************************************************)
\* what a step that receives a request does to the limiter
LimiterStep ==
  Receiving =>
    LET r == Received
        a == r.ip
    IN \* keys are counted separately
       /\ \A b \in Addrs \ {a} :
            hits'[b] = hits[b] /\ resetTime'[b] = resetTime[b] /\ admitted'[b] = admitted[b]
       \* every request is counted (no undercounting)
       /\ hits'[a] = IF resetTime[a] <= now THEN 1 ELSE hits[a] + 1
       \* the 6th and later: 429, RATE_LIMITED, no email, no insert
       /\ hits'[a] > max =>
            /\ r.pc = "done"
            /\ r.status = 429
            /\ r.reply = TooMany
            /\ LoggedOnly(r, "RATE_LIMITED", [ip |-> a])
            /\ NoSideEffect(r)
            /\ messages' = messages
       \* the first five reach the handler
       /\ hits'[a] <= max => r.status # 429

\* C2: under any interleaving, per source address at most 5 requests of one
\* 15-minute window reach the submission pipeline; the 6th and later get 429
\* "Too many requests. Please try again later.", log RATE_LIMITED, and cause
\* no email and no insert; no request goes uncounted, and requests of other
\* addresses leave an address's count alone.
C2_RateLimit ==
  /\ [](\A a \in Addrs : admitted[a] <= max)
  /\ [][LimiterStep]_vars

\* one address is over its limit with five passed on and a request of its
\* window still suspended, while the other address has been counted separately
C2_Witness ==
  \E a \in Addrs : \E b \in Addrs \ {a} :
    /\ hits[a] > max
    /\ admitted[a] = max
    /\ finished.pc = "done" /\ finished.status = 429 /\ finished.ip = a
    /\ \E r \in BagToSet(inflight) : r.ip = a
    /\ hits[b] = 1

(***************************************************************************)
(* C3                                                                      *)
(***************************************************************************)
\* a submission the interface accepts: honeypot empty, the required fields
\* present and well-formed, subject optional
ValidSubmission(b) ==
  /\ Blank(b.company)
  /\ ~Blank(b.firstName)
  /\ ~Blank(b.lastName)
  /\ ~Blank(b.email) /\ IsEmail(b.email.s) /\ Len(b.email.s) <= EmailMaxLen
  /\ ~Blank(b.message) /\ Len(b.message.s) <= MessageMaxLen
  /\ (b.subject = Undefined \/ IsString(b.subject))

\* C3: after an address was rejected with 429, once its 15-minute window has
\* elapsed its counter is reset and a subsequent valid submission from it is
\* accepted and goes through the pipeline (validated, sanitized, its email
\* dispatched) instead of being rejected.
C3_SucceedsAfterWindow ==
  [][(Receiving /\ hits[Received.ip] > max /\ resetTime[Received.ip] <= now
        /\ ValidSubmission(Received.body)) =>
       /\ hits'[Received.ip] = 1
       /\ Received.status # 429
       /\ Received.pc = "send"
       /\ Received.mail # NoMail]_vars

\* the part of C3 that is the limiter's: a key's first request after its
\* window is over starts a new window and is passed on
WindowReset ==
  [][(Receiving /\ hits[Received.ip] > max /\ resetTime[Received.ip] <= now) =>
       /\ hits'[Received.ip] = 1
       /\ resetTime'[Received.ip] = now + windowMs
       /\ Received.status # 429]_vars

\* an address that had been rejected was passed on again in a new window
WindowReset_Witness ==
  \E a \in Addrs :
    /\ hits[a] = 1
    /\ resetTime[a] = 2 * windowMs
    /\ arrived = BurstReqs

(***************************************************************************)
(* C4                                                                      *)
(***************************************************************************)
\* a required field of body b is absent or empty
LacksRequired(b) ==
  Blank(b.firstName) \/ Blank(b.lastName) \/ Blank(b.email) \/ Blank(b.message)

\* C4: a request with an empty honeypot that lacks (absent or empty) any of
\* firstName, lastName, email, message is answered 400 "Missing required
\* fields." before any format or length check, and causes no email, no row
\* and no log event; it is never suspended on the provider or the store.
C4_MissingRequiredFirst ==
  /\ (Ended(finished) /\ Blank(finished.body.company) /\ LacksRequired(finished.body)) =>
       /\ finished.pc = "done"
       /\ finished.status = 400
       /\ finished.reply = MissingFields
       /\ finished.sent = 1
       /\ NoSideEffect(finished)
       /\ finished.logged = <<>>
       /\ messages = <<>>
  /\ \A r \in BagToSet(inflight) : ~LacksRequired(r.body)

\* a request without firstName whose address is malformed and whose message
\* is over length was answered with the missing-fields error
C4_Witness ==
  /\ Ended(finished)
  /\ Blank(finished.body.company)
  /\ Blank(finished.body.firstName)
  /\ IsString(finished.body.email) /\ ~IsEmail(finished.body.email.s)
  /\ IsString(finished.body.message) /\ Len(finished.body.message.s) > MessageMaxLen
  /\ finished.status = 400
  /\ finished.reply = MissingFields

(***************************************************************************)
(* C5                                                                      *)
(***************************************************************************)
\* body b is a valid submission but for the length of its message
OtherwiseValid(b) ==
  /\ Blank(b.company)
  /\ ~Blank(b.firstName)
  /\ ~Blank(b.lastName)
  /\ ~Blank(b.email) /\ IsEmail(b.email.s) /\ Len(b.email.s) <= EmailMaxLen
  /\ ~Blank(b.message)
  /\ (b.subject = Undefined \/ IsString(b.subject))

\* the requests received so far
Requests == BagToSet(inflight) \cup (IF finished = NoRequest THEN {} ELSE {finished})

\* C5, as stated: of the otherwise valid submissions (subject optional), one
\* whose message has exactly 1000 characters passes validation and goes on to
\* the email dispatch, and one whose message has 1001 or more is answered 400
\* "Message must be less than 1000 characters" with no email and no row.
C5_LengthBoundary ==
  \A r \in Requests :
    OtherwiseValid(r.body) =>
      /\ Len(r.body.message.s) = MessageMaxLen =>
           /\ r.mail # NoMail
           /\ r.mail.text[5] = Escape(r.body.message.s)
           /\ r.status # 400
      /\ Len(r.body.message.s) > MessageMaxLen =>
           /\ r.pc = "done"
           /\ r.status = 400
           /\ r.reply = MessageTooLong
           /\ NoSideEffect(r)

\* the boundary for submissions that carry a subject string: 1000 characters
\* are dispatched, 1001 are refused
MessageBoundary ==
  \A r \in Requests :
    (OtherwiseValid(r.body) /\ IsString(r.body.subject)) =>
      /\ Len(r.body.message.s) = MessageMaxLen =>
           /\ r.mail # NoMail
           /\ r.mail.text[5] = Escape(r.body.message.s)
           /\ r.status # 400
      /\ Len(r.body.message.s) > MessageMaxLen =>
           /\ r.pc = "done"
           /\ r.status = 400
           /\ r.reply = MessageTooLong
           /\ NoSideEffect(r)

\* a 1000-character message was stored and answered 200
MessageBoundary_Witness ==
  /\ Ended(finished)
  /\ IsString(finished.body.message)
  /\ Len(finished.body.message.s) = MessageMaxLen
  /\ finished.status = 200
  /\ finished.inserted = 1

(***************************************************************************)
(* C6                                                                      *)
(***************************************************************************)
\* the HTML-escaped form of a value, as the row holds it
Escaped(v) == Str(Escape(v.s))

\* the characters of markup that no escaped form contains
Markup == {"<", ">", "\"", "'", "/"}

\* value v holds no character of markup
Plain(v) == v = Null \/ \A i \in 1..Len(v.s) : v.s[i] \notin Markup

\* C6, as stated: for every request that passes validation, the firstName,
\* lastName, subject and message placed in the email body and in the inserted
\* row are the HTML-escaped forms of the input, so that no raw value with a
\* markup character is emailed or stored; the email address is passed
\* through unescaped.
C6_Escaped ==
  /\ \A r \in Requests :
       r.mail # NoMail =>
         /\ r.mail.text = <<Escape(r.body.firstName.s), Escape(r.body.lastName.s),
                             r.body.email.s, Escape(r.body.subject.s),
                             Escape(r.body.message.s)>>
         /\ "html" \in DOMAIN r.mail =>
              r.mail.html = <<Escape(r.body.firstName.s), Escape(r.body.lastName.s),
                              r.body.email.s, OrElse(Escape(r.body.subject.s), None),
                              Escape(r.body.message.s)>>
  /\ \A r \in Requests :
       r.inserted = 1 =>
         \E i \in 1..Len(messages) :
           /\ messages[i].first_name = Escaped(r.body.firstName)
           /\ messages[i].last_name = Escaped(r.body.lastName)
           /\ messages[i].email = r.body.email
           /\ messages[i].subject =
                (IF Truthy(r.body.subject) THEN Escaped(r.body.subject) ELSE Null)
           /\ messages[i].message = Escaped(r.body.message)
  /\ \A i \in 1..Len(messages) :
       /\ Plain(messages[i].first_name)
       /\ Plain(messages[i].last_name)
       /\ Plain(messages[i].subject)
       /\ Plain(messages[i].message)

(***************************************************************************)
(* C7                                                                      *)
(***************************************************************************)
\* C7: when the email dispatch fails (the provider returns an error payload
\* or the call rejects), the request adds no row and is answered 500 with the
\* fixed body "Failed to send message. Please try again later.", which holds
\* nothing of the error; it is answered in the step in which the call settles.
C7_DispatchFailure ==
  /\ (finished # NoRequest /\ finished.settled \in {"error", "rejected"}) =>
       /\ finished.pc = "done"
       /\ finished.inserted = 0
       /\ messages = <<>>
       /\ finished.status = 500
       /\ finished.reply = SendFailed
       /\ finished.sent = 1
  /\ \A r \in BagToSet(inflight) : r.settled \in {"", "data"}

\* a dispatch that rejected was answered 500 and left the table empty
C7_Witness ==
  /\ finished # NoRequest
  /\ finished.settled = "rejected"
  /\ finished.mail # NoMail
  /\ finished.status = 500
  /\ messages = <<>>

(***************************************************************************)
(* C8                                                                      *)
(***************************************************************************)
\* the log lines of request r whose type is type
Events(r, type) == {i \in 1..Len(r.logged) : r.logged[i].type = type}

\* C8: when the provider returns an error payload, the request logs one
\* RESEND_ERROR event with the client's IP, the submitted email and the
\* error message before anything else, logs no SUCCESS event, adds no row
\* and is answered 500 with the generic failure message.
C8_ResendErrorLogged ==
  (finished # NoRequest /\ finished.settled = "error") =>
    /\ Events(finished, "RESEND_ERROR") = {1}
    /\ finished.logged[1] =
         [type |-> "RESEND_ERROR", ip |-> finished.ip, email |-> finished.body.email,
          error |-> ProviderMessage]
    /\ Events(finished, "SUCCESS") = {}
    /\ finished.inserted = 0
    /\ finished.status = 500
    /\ finished.reply = SendFailed

\* an error payload of the provider was logged and answered 500
C8_Witness ==
  /\ finished # NoRequest
  /\ finished.settled = "error"
  /\ Events(finished, "RESEND_ERROR") = {1}
  /\ finished.status = 500

(***************************************************************************)
(* C9                                                                      *)
(***************************************************************************)
\* the suspended requests whose row is in the table and whose answer is due
Stored == {r \in BagToSet(inflight) : r.pc = "inserted"}

\* the number of suspended requests in the set S, copies counted
Copies(S) == BagCardinality([r \in S |-> CopiesIn(r, inflight)])

\* C9: after any sequence of requests the rows of messages are as many as the
\* non-honeypot requests answered 200 (plus those whose row is written and
\* whose answer is due in their next step, none when nothing is suspended);
\* a request answered 200 with an empty honeypot made one email call, added
\* one row and logged exactly one event, a SUCCESS event; every other ended
\* request added no row.
C9_RowPerSuccess ==
  /\ Len(messages) = accepted + Copies(Stored)
  /\ Ended(finished) =>
       IF finished.status = 200 /\ Blank(finished.body.company)
         THEN /\ finished.mail # NoMail
              /\ finished.settled = "data"
              /\ finished.inserted = 1
              /\ LoggedOnly(finished, "SUCCESS",
                            [ip |-> finished.ip, email |-> finished.body.email,
                             subject |-> finished.body.subject])
         ELSE finished.inserted = 0

\* two submissions were stored and answered 200, a third request was not,
\* and nothing is suspended
C9_Witness ==
  /\ arrived = MaxReqs
  /\ inflight = EmptyBag
  /\ accepted = 2
  /\ Len(messages) = 2
  /\ Ended(finished)
  /\ finished.status = 500

(***************************************************************************)
(* C10                                                                     *)
(***************************************************************************)
\* C10, as stated: a request that is valid but for having no subject is sent
\* with the default subject "New Portfolio Contact", and, when neither the
\* provider nor the store fails, is stored with a null subject and answered
\* 200 {success: true}.
C10_SubjectOptional ==
  \A r \in Requests :
    (ValidSubmission(r.body) /\ r.body.subject = Undefined) =>
      /\ r.mail # NoMail
      /\ r.mail.subject = NewPortfolioContact
      /\ r.inserted = 1 => \E i \in 1..Len(messages) : messages[i].subject = Null
      /\ (Ended(r) /\ r.inserted = 1) => (r.status = 200 /\ r.reply = Success)
      /\ Ended(r) => r.settled # ""

\* a submission whose subject is the empty string is sent with the default
\* subject, stored with a null subject and answered 200
EmptySubject ==
  \A r \in Requests :
    (ValidSubmission(r.body) /\ r.body.subject = Str(<<>>)) =>
      /\ r.mail # NoMail
      /\ r.mail.subject = NewPortfolioContact
      /\ r.inserted = 1 => \E i \in 1..Len(messages) : messages[i].subject = Null
      /\ (Ended(r) /\ r.inserted = 1) => (r.status = 200 /\ r.reply = Success)
      /\ Ended(r) => r.settled # ""

\* a submission with the empty string as subject was stored and answered 200
EmptySubject_Witness ==
  /\ Ended(finished)
  /\ finished.body.subject = Str(<<>>)
  /\ finished.status = 200
  /\ messages # <<>>

(***************************************************************************)
(* C11                                                                     *)
(***************************************************************************)
\* the header is of the form "Bearer <token>"
IsBearer(h) == Truthy(h) /\ StartsWith(h.s, BearerPrefix)

\* what follows "Bearer " in the header
Credential(h) == Str(SubSeq(h.s, Len(BearerPrefix) + 1, Len(h.s)))

\* the admin requests received so far
AdminRequests == {r \in Requests : "authorization" \in DOMAIN r}

\* C11, as stated: a GET /api/admin/messages request without an
\* Authorization header of the form "Bearer <token>" is answered 401
\* "Unauthorized"; one whose token is not the admin secret is answered 403
\* "Forbidden"; one with the secret reaches the listing handler and is
\* answered 200 (500 when the store fails); the store is not queried in the
\* 401 and 403 cases.
C11_AdminAuth ==
  \A r \in AdminRequests :
    /\ ~IsBearer(r.authorization) =>
         r.pc = "done" /\ r.status = 401 /\ r.reply = Unauthorized /\ r.queries = 0
    /\ (IsBearer(r.authorization) /\ Credential(r.authorization) # r.key) =>
         r.pc = "done" /\ r.status = 403 /\ r.reply = Forbidden /\ r.queries = 0
    /\ (IsBearer(r.authorization) /\ Credential(r.authorization) = r.key) =>
         /\ r.queries >= 1
         /\ Ended(r) => r.status \in {200, 500}

\* the three answers of the middleware chain once a request is handed to it,
\* for the secret "key" and headers that carry at most one token
AuthGate ==
  \A r \in AdminRequests :
    r.key = Str(Secret) =>
      /\ r.authorization \in {Undefined, Str(Basic \o Secret)} =>
           r.pc = "done" /\ r.status = 401 /\ r.reply = Unauthorized /\ r.queries = 0
      /\ r.authorization = Str(BearerPrefix \o <<"b", "a", "d">>) =>
           r.pc = "done" /\ r.status = 403 /\ r.reply = Forbidden /\ r.queries = 0
      /\ r.authorization = Str(BearerPrefix \o Secret) =>
           /\ r.queries >= 1
           /\ Ended(r) => r.status \in {200, 500}

\* the chain answered 200 to the secret
AuthGate_Witness ==
  /\ Ended(finished)
  /\ "authorization" \in DOMAIN finished
  /\ finished.authorization = Str(BearerPrefix \o Secret)
  /\ finished.key = Str(Secret)
  /\ finished.status = 200

(***************************************************************************)
(* C12                                                                     *)
(***************************************************************************)
\* adminAuth called next() for request r: the handler ran
Granted(r) == r.queries >= 1

\* C12, as stated: adminAuth grants access exactly when what the header
\* holds after "Bearer " is, as a whole string, the configured secret: a
\* remainder that differs from the secret in any way (trailing text after a
\* space, an empty token, an unset secret) is refused, and the exact secret,
\* one with a space in it included, is admitted.
C12_ExactSecret ==
  \A r \in AdminRequests :
    Granted(r) <=> (IsBearer(r.authorization) /\ Credential(r.authorization) = r.key)

\* access is granted only to a header that starts with "Bearer " and the
\* whole secret, and never when the secret is unset
NoForgery ==
  \A r \in AdminRequests :
    Granted(r) =>
      /\ IsString(r.key)
      /\ StartsWith(r.authorization.s, BearerPrefix \o r.key.s)

\* the header "Bearer key x" was granted access with the secret "key"
NoForgery_Witness ==
  \E r \in AdminRequests :
    /\ r.key = Str(Secret)
    /\ r.authorization = Str(BearerPrefix \o Secret \o <<" ", "x">>)
    /\ Granted(r)

(***************************************************************************)
(* C13                                                                     *)
(***************************************************************************)
\* the positive numbers among the query parameter samples
Positive == (Str(Two) :> 2) @@ (Str(Three) :> 3) @@ (Str(FiveHundred) :> 500)

\* the listings answered 200
Listings == {r \in AdminRequests : r.pc = "done" /\ r.status = 200}

Handled == {r \in AdminRequests : Granted(r)}

\* C14, as stated: a page or limit parameter that is non-numeric, zero or
\* negative falls back to its default (page 1, limit 20), so the offset given
\* to the store query is never negative and the limit never non-positive.
C14_Fallback ==
  \A r \in Handled :
    /\ r.query.page \in {Str(Abc), Str(Zero), Str(MinusOne)} => r.page = DefaultPage
    /\ r.query.limit \in {Str(Abc), Str(Zero), Str(MinusOne)} => r.limit = DefaultLimit
    /\ r.offset >= 0
    /\ r.limit > 0

\* an absent, non-numeric or zero parameter falls back to its default
FalsyFallback ==
  \A r \in Handled :
    /\ r.query.page \in {Undefined, Str(Abc), Str(Zero)} => r.page = DefaultPage
    /\ r.query.limit \in {Undefined, Str(Abc), Str(Zero)} => r.limit = DefaultLimit
    /\ (r.query.page # Str(MinusOne) /\ r.query.limit # Str(MinusOne)) =>
         r.offset >= 0 /\ r.limit > 0

\* a listing with page=abc and limit=0 was answered 200 with page 1, limit 20
FalsyFallback_Witness ==
  \E r \in Listings :
    /\ r.query = [page |-> Str(Abc), limit |-> Str(Zero)]
    /\ r.page = DefaultPage
    /\ r.limit = DefaultLimit
    /\ r.offset = 0

(***************************************************************************)
(* C15                                                                     *)
(***************************************************************************)
\* the documented cap of limit
LimitCap == 100

\* C15, as stated: whatever limit is requested, the limit given to the store
\* query and echoed in the response is at most 100, and no response holds
\* more than 100 messages.
C15_LimitCapped ==
  \A r \in Handled :
    /\ r.limit <= LimitCap
    /\ Len(r.rows) <= LimitCap

(***************************************************************************)
(* C16                                                                     *)
(***************************************************************************)
\* the listings in which a store query failed
FailedListings == {r \in AdminRequests : r.failed}

\* C16, as stated: when a store query fails during an authenticated listing,
\* the handler emits one log record whose event kind (its type) is ERROR,
\* with the admin-fetch context, and answers 500 "Failed to fetch messages".
C16_AdminErrorLogged ==
  \A r \in FailedListings :
    /\ r.pc = "done"
    /\ r.status = 500
    /\ r.reply = FetchFailed
    /\ Len(r.logged) = 1
    /\ r.logged[1].type = "ERROR"

\* a failed store query of a listing is answered 500 "Failed to fetch
\* messages" and leaves one log record, which names the admin fetch and the
\* error
AdminFailure ==
  \A r \in FailedListings :
    /\ r.pc = "done"
    /\ r.status = 500
    /\ r.reply = FetchFailed
    /\ Len(r.logged) = 1
    /\ r.logged[1].type = "ADMIN_FETCH_FAILED"
    /\ r.logged[1].error = StoreMessage

\* the count query of a listing failed after its row query had succeeded
AdminFailure_Witness ==
  \E r \in FailedListings : r.queries = 2 /\ r.status = 500 /\ Len(r.logged) = 1

(***************************************************************************)
(* C17                                                                     *)
(***************************************************************************)
\* the runs that failed after reaching the email dispatch or the store
FailedRuns ==
  {r \in Requests :
     IF "authorization" \in DOMAIN r
       THEN r.failed
       ELSE Ended(r) /\ r.mail # NoMail /\ r.status = 500}

\* C17, as stated: every failing run that reached the email dispatch or the
\* store (the provider throws or returns an error payload, the insert fails,
\* an admin store query fails) logs exactly one event, and that event carries
\* the request's source address.
C17_OneEventWithAddress ==
  \A r \in FailedRuns :
    /\ Len(r.logged) = 1
    /\ "ip" \in DOMAIN r.logged[1]
    /\ r.logged[1].ip = r.ip

\* a submission whose provider call throws, or whose insert fails, logs one
\* ERROR event with the source address and the error message
OneErrorEvent ==
  \A r \in FailedRuns :
    ("body" \in DOMAIN r /\ r.settled \in {"rejected", "data"}) =>
      r.logged = <<[type |-> "ERROR", ip |-> r.ip,
                    error |-> IF r.settled = "data" THEN StoreMessage ELSE ProviderMessage]>>

\* an insert failed after the email had been sent
OneErrorEvent_Witness ==
  \E r \in FailedRuns : "body" \in DOMAIN r /\ r.settled = "data" /\ Len(r.logged) = 1

(***************************************************************************)
(* C18                                                                     *)
(***************************************************************************)
\* C18, as stated: on a termination signal the pool is closed before the
\* process exits: whenever the process has ended, pool.end() has completed
\* and no store query was in flight.
C18_PoolClosedBeforeExit ==
  process # "running" => (pool = "ended" /\ Querying = {})

\* on SIGINT the pool is closed before process.exit(0) and no store query is
\* cut off by the exit
SigintGraceful ==
  process = "exited" => (pool = "ended" /\ Querying = {})

\* the process exited on SIGINT after a stored submission
SigintGraceful_Witness ==
  /\ process = "exited"
  /\ pool = "ended"
  /\ messages # <<>>

(***************************************************************************)
(* C19                                                                     *)
(***************************************************************************)
\* request r has one response of the handler, or awaits the provider or the
\* store and has none yet
AnsweredOnce(r) ==
  /\ r.pc # "unanswered"
  /\ r.reply # DefaultErrorPage
  /\ r.sent <= 1
  /\ Ended(r) => (r.sent = 1 /\ r.status \in {200, 400, 500})

\* C19, as stated: every POST /api/contact request that passes the rate
\* limiter gets exactly one response, a 200, 400 or 500 of the handler,
\* whatever its payload: no payload makes the handler fail outside its
\* try/catch and leaves the request unanswered, and none gets two responses.
C19_ExactlyOneResponse ==
  \A r \in Requests : r.status # 429 => AnsweredOnce(r)

\* every request whose payload has a subject string gets one response of
\* the handler
OneResponse ==
  \A r \in Requests : IsString(r.body.subject) => AnsweredOnce(r)

\* a submission was answered 500 by the catch block after a failed insert
OneResponse_Witness ==
  /\ Ended(finished)
  /\ IsString(finished.body.subject)
  /\ finished.settled = "data"
  /\ finished.status = 500
  /\ finished.sent = 1

(***************************************************************************)
(* C20                                                                     *)
(***************************************************************************)
\* a step only appends to the table
AppendOnly ==
  /\ Len(messages') >= Len(messages)
  /\ SubSeq(messages', 1, Len(messages)) = messages

=============================================================================
